---- MODULE Spec2Model ----
(***************************************************************************)
(* Model of the dynamic prompt engine of boteval-darma-task                *)
(* (prompt_generator.py): class Variable (assignability gate, assign,      *)
(* backspace, string substitution) and class PromptGenerator (run, the     *)
(* concurrent token resolution of _decode_tokens over a shared thread      *)
(* pool, reduce, backspace).                                               *)
(*                                                                         *)
(* Texts are sequences of items; an item is a literal chunk or a token     *)
(* reference <w1-w2-...>.  A token is the sequence of its words            *)
(* (re.findall(ROOT_TOKEN_REGEX, token)): the first word is the root, the  *)
(* rest is the format.                                                     *)
(***************************************************************************)
EXTENDS Integers, Sequences, FiniteSets, TLC

\* ---------------------------------------------------------------- bounds
NumWorkers == 3          \* size of the thread pool (ThreadPool() = cpu count)
MaxTurn == 2             \* Run is called with turn_idx in 0..MaxTurn
MaxOps == 3              \* run / backspace calls made on the engine
MaxVariableOps == 3      \* assign / backspace calls made on one Variable
MaxQueryTurn == 5        \* turn indices at which the gate is queried
MaxFrequency == 3        \* declared frequencies at which the gate is queried
MaxTurnsLen == 3         \* length of the turn lists handed to _messages_compose

Turns == 0 .. MaxTurn
QueryTurns == 0 .. MaxQueryTurn

\* ------------------------------------------------------------ texts
Lit(s) == [lit |-> s, tok |-> << >>]
Tok(w) == [lit |-> "", tok |-> w]
IsTok(it) == it.tok # << >>

\* Python values held by a Variable: None, a str, a list of str, or no key.
None == [t |-> "none", s |-> << >>, l |-> << >>]
Absent == [t |-> "absent", s |-> << >>, l |-> << >>]
StrV(text) == [t |-> "str", s |-> text, l |-> << >>]
ListV(lst) == [t |-> "list", s |-> << >>, l |-> lst]

\* dict.get(key): a missing key reads as None
GetOrNone(v) == IF v.t = "absent" THEN None ELSE v
IsNone(v) == v.t = "none"
\* Python truthiness of a value
Truthy(v) ==
    \/ v.t = "str" /\ v.s # << >>
    \/ v.t = "list" /\ v.l # << >>

\* str.lower() on the literal chunks and token words that occur in the model
LowerWord(s) ==
    CASE s = "Ab" -> "ab"
      [] s = "AB" -> "ab"
      [] s = "Zz" -> "zz"
      [] OTHER -> s
LowerItem(it) ==
    [lit |-> LowerWord(it.lit),
     tok |-> [i \in 1 .. Len(it.tok) |-> LowerWord(it.tok[i])]]
Lower(text) == [i \in 1 .. Len(text) |-> LowerItem(text[i])]

\* re.findall(TOKEN_REGEX, instruction_raw) then dict keys: the distinct
\* tokens in order of first occurrence
RECURSIVE Dedup(_, _)
Dedup(seq, seen) ==
    IF seq = << >> THEN << >>
    ELSE IF Head(seq) \in seen THEN Dedup(Tail(seq), seen)
         ELSE <<Head(seq)>> \o Dedup(Tail(seq), seen \cup {Head(seq)})
RECURSIVE TokensIn(_)
TokensIn(text) ==
    IF text = << >> THEN << >>
    ELSE IF IsTok(Head(text)) THEN <<Head(text).tok>> \o TokensIn(Tail(text))
         ELSE TokensIn(Tail(text))
get_tokens(text) == Dedup(TokensIn(text), {})

\* token_root / token_format of _decode_token
token_root(token) == Head(token)
token_format(token) == Tail(token)

\* str.replace('<token>', decoding) on a text
RECURSIVE str_replace(_, _, _)
str_replace(text, token, decoding) ==
    IF text = << >> THEN << >>
    ELSE IF Head(text) = Tok(token)
         THEN decoding \o str_replace(Tail(text), token, decoding)
         ELSE <<Head(text)>> \o str_replace(Tail(text), token, decoding)

\* ------------------------------------------------- configuration documents
\* One preprocess_variables entry.  frequency = NoFrequency: key not given;
\* post_regex = << >>: key not given; post_func: list of expression templates.
\* replies / can_fail describe the endpoint stub bound to the variable.
NoFrequency == 0
VarSpec(instr, freq, regex, funcs, replies, fails) ==
    [instruction |-> instr, frequency |-> freq, post_regex |-> regex,
     post_func |-> funcs, replies |-> replies, can_fail |-> fails]
Leaf(word, freq, replies, fails) ==
    VarSpec(<<Lit(word)>>, freq, << >>, << >>, replies, fails)

\* transform expressions (the strings handed to eval): a text whose first
\* literal names the lambda
FnFirst == <<Lit("lambda x: x[0] if x else None")>>
FnWrap == <<Lit("lambda x: '(' + x + ')'")>>
\* a transform expression that quotes the list format of its own variable
FnSelf == <<Lit("lambda x: x + "), Tok(<<"x", "list">>)>>

\* a root instruction with more tokens than four times the size of the
\* pool of a single-cpu host
ManyTokens ==
    <<<<"a">>, <<"u">>, <<"u", "3">>, <<"a", "s">>, <<"u", "5">>>>

ConfigNames ==
    {"W", "AB", "XL", "NL", "DIA", "UND", "D", "NVC", "K", "CH", "BIG",
     "CYC", "CYC2", "PF", "LZ", "SELF"}
Config(name) ==
    CASE name = "W" ->
           [generate_fails |-> FALSE,
            instruction |-> <<Tok(<<"w">>)>>,
            variables |-> [k \in {"w"} |->
                Leaf("ask w", 2, {<<Lit("42")>>}, FALSE)]]
      [] name = "AB" ->
           [generate_fails |-> FALSE,
            instruction |-> <<Tok(<<"a">>), Lit(" and "), Tok(<<"b">>)>>,
            variables |-> [k \in {"a", "b"} |->
                IF k = "a"
                THEN Leaf("ask a", NoFrequency, {<<Lit("X")>>}, TRUE)
                ELSE Leaf("ask b", 1, {<<Lit("Y")>>}, FALSE)]]
      [] name = "XL" ->
           [generate_fails |-> FALSE,
            instruction |-> <<Tok(<<"x">>), Lit(" "), Tok(<<"x", "list">>)>>,
            variables |-> [k \in {"x"} |->
                VarSpec(<<Lit("ask x")>>, 3, <<Lit("AB")>>, <<FnFirst>>,
                        {<<Lit("Ab"), Lit("c"), Lit("ab")>>}, FALSE)]]
      [] name = "NL" ->
           [generate_fails |-> FALSE,
            instruction |-> <<Tok(<<"n">>), Lit(" "), Tok(<<"n", "list">>)>>,
            variables |-> [k \in {"n"} |->
                VarSpec(<<Lit("ask n")>>, NoFrequency, <<Lit("ab")>>,
                        <<FnFirst>>,
                        {<<Lit("c")>>, <<Lit("ab")>>}, FALSE)]]
      [] name = "DIA" ->
           [generate_fails |-> FALSE,
            instruction |-> <<Tok(<<"p">>), Lit(" "), Tok(<<"q">>)>>,
            variables |-> [k \in {"p", "q", "c"} |->
                IF k = "c"
                THEN Leaf("ask c", 2, {<<Lit("C")>>}, TRUE)
                ELSE VarSpec(<<Lit("on "), Tok(<<"c">>)>>,
                             IF k = "p" THEN 1 ELSE NoFrequency,
                             << >>, << >>, {<<Lit(k)>>}, FALSE)]]
      [] name = "UND" ->
           [generate_fails |-> FALSE,
            instruction |-> <<Tok(<<"a">>), Lit(" "), Tok(<<"u">>)>>,
            variables |-> [k \in {"a"} |->
                Leaf("ask a", 1, {<<Lit("X")>>}, FALSE)]]
      [] name = "NVC" ->
           [generate_fails |-> FALSE,
            instruction |-> <<Lit("be "), Tok(<<"e">>)>>,
            variables |-> [k \in {"e"} |->
                Leaf("ask e", 1, {<<Lit("E")>>}, FALSE)]]
      [] name = "K" ->
           [generate_fails |-> FALSE,
            instruction |-> <<Lit("constant prompt")>>,
            variables |-> [k \in {"e"} |->
                Leaf("ask e", 1, {<<Lit("E")>>}, FALSE)]]
      [] name = "CH" ->
           [generate_fails |-> FALSE,
            instruction |-> <<Tok(<<"h1">>)>>,
            variables |-> [k \in {"h1", "h2", "h3", "h4"} |->
                IF k = "h4"
                THEN Leaf("ask h4", NoFrequency, {<<Lit("H")>>}, FALSE)
                ELSE VarSpec(<<Lit("on "),
                               Tok(<<CASE k = "h1" -> "h2"
                                       [] k = "h2" -> "h3"
                                       [] OTHER -> "h4">>)>>,
                             NoFrequency, << >>, << >>,
                             {<<Lit(k)>>}, FALSE)]]
      [] name = "BIG" ->
           [generate_fails |-> FALSE,
            instruction |-> [i \in 1 .. Len(ManyTokens) |->
                                Tok(ManyTokens[i])],
            variables |-> [k \in {"a"} |->
                Leaf("ask a", 1, {<<Lit("X")>>}, FALSE)]]
      [] name = "CYC" ->
           [generate_fails |-> FALSE,
            instruction |-> <<Tok(<<"s">>)>>,
            variables |-> [k \in {"s"} |->
                VarSpec(<<Lit("more "), Tok(<<"s">>)>>, NoFrequency,
                        << >>, << >>, {<<Lit("S")>>}, FALSE)]]
      [] name = "CYC2" ->
           [generate_fails |-> FALSE,
            instruction |-> <<Tok(<<"s">>)>>,
            variables |-> [k \in {"s", "t"} |->
                VarSpec(<<Lit("on "), Tok(<<IF k = "s" THEN "t" ELSE "s">>)>>,
                        NoFrequency, << >>, << >>, {<<Lit(k)>>}, FALSE)]]
      [] name = "PF" ->
           [generate_fails |-> FALSE,
            instruction |-> <<Tok(<<"f">>), Lit(" "), Tok(<<"g">>)>>,
            variables |-> [k \in {"f", "g"} |->
                IF k = "f"
                THEN VarSpec(<<Lit("ask f")>>, NoFrequency, <<Lit("AB")>>,
                             <<FnFirst, FnWrap>>,
                             {<<Lit("Ab"), Lit("c"), Lit("ab")>>}, FALSE)
                ELSE VarSpec(<<Lit("ask g")>>, NoFrequency, << >>,
                             <<FnWrap, FnFirst>>,
                             {<<Lit("X")>>}, FALSE)]]
      [] name = "LZ" ->
           [generate_fails |-> FALSE,
            instruction |-> <<Tok(<<"l">>)>>,
            variables |-> [k \in {"l", "m"} |->
                IF k = "m"
                THEN VarSpec(<<Lit("ask m")>>, 1, << >>,
                             <<FnFirst, FnWrap>>,
                             {<<Lit("M")>>, << >>}, FALSE)
                ELSE VarSpec(<<Lit("on "), Tok(<<"m">>)>>, NoFrequency,
                             << >>, << >>, {<<Lit("L")>>}, FALSE)]]
      [] name = "SELF" ->
           [generate_fails |-> FALSE,
            instruction |-> <<Tok(<<"x">>)>>,
            variables |-> [k \in {"x", "y"} |->
                IF k = "y"
                THEN Leaf("ask y", NoFrequency, {<<Lit("ab")>>}, FALSE)
                ELSE VarSpec(<<Lit("ask x")>>, NoFrequency,
                             <<Tok(<<"y">>)>>,
                             <<FnSelf>>,
                             {<<Lit("Ab"), Lit("c"), Lit("ab")>>}, FALSE)]]
      [] name = "D" ->
           [generate_fails |-> TRUE,
            instruction |-> <<Tok(<<"d">>)>>,
            variables |-> [k \in {"d"} |->
                Leaf("ask d", NoFrequency,
                     {<<Lit("D")>>, << >>}, TRUE)]]

\* frequency settings: not declared, or a positive integer
Frequencies == {NoFrequency} \cup (1 .. MaxFrequency)

\* ------------------------------------------------------- class Variable
\* runtime state of one registered Variable: _parameters['value'],
\* _parameters['value-<format>'] (value, keyed by format), 'response',
\* _assign_cnt, _assignments, and _variables (token -> (variable, format)
\* for the tokens replaced so far; a token not replaced yet maps to None)
NewVariable ==
    [value |-> << >>, response |-> None, assign_cnt |-> 0,
     assignments |-> << >>, tokens |-> << >>]

BaseFormat == << >>
ListFormat == <<"list">>

\* Variable.get('value')
get_value(v) ==
    IF BaseFormat \in DOMAIN v.value THEN v.value[BaseFormat] ELSE None
\* Variable.get_assignment(format): _parameters[key], KeyError when missing
get_assignment(v, format) ==
    IF format \in DOMAIN v.value THEN v.value[format] ELSE Absent

DictSet(d, k, x) == [i \in DOMAIN d \cup {k} |-> IF i = k THEN x ELSE d[i]]
DictDel(d, k) == [i \in DOMAIN d \ {k} |-> d[i]]
DictGet(d, k) == IF k \in DOMAIN d THEN d[k] ELSE None

\* is_assignable without the look-up of the turn in _assignments
is_assignable_no_history(v, frequency, turn_idx) ==
    IF IsNone(get_value(v)) THEN TRUE
    ELSE LET freq == IF frequency # NoFrequency THEN frequency
                     ELSE turn_idx + 2
         IN  ((turn_idx + 1) % freq) = 0

\* is_assignable that ignores the declared frequency
is_assignable_default_frequency(v, frequency, turn_idx) ==
    IF IsNone(get_value(v)) THEN TRUE
    ELSE IF ~IsNone(DictGet(v.assignments, turn_idx)) THEN FALSE
    ELSE ((turn_idx + 1) % (turn_idx + 2)) = 0

\* is_assignable without the first-use bypass
is_assignable_no_bypass(v, frequency, turn_idx) ==
    IF ~IsNone(DictGet(v.assignments, turn_idx)) THEN FALSE
    ELSE LET freq == IF frequency # NoFrequency THEN frequency
                     ELSE turn_idx + 2
         IN  ((turn_idx + 1) % freq) = 0

\* is_assignable that tests turn_idx instead of turn_idx + 1
is_assignable_off_by_one(v, frequency, turn_idx) ==
    IF IsNone(get_value(v)) THEN TRUE
    ELSE IF ~IsNone(DictGet(v.assignments, turn_idx)) THEN FALSE
    ELSE LET freq == IF frequency # NoFrequency THEN frequency
                     ELSE turn_idx + 2
         IN  (turn_idx % freq) = 0

\* Variable.is_assignable(turn_idx); frequency is the declared one or
\* NoFrequency
is_assignable(v, frequency, turn_idx) ==
    IF IsNone(get_value(v)) THEN TRUE
    ELSE IF ~IsNone(DictGet(v.assignments, turn_idx)) THEN FALSE
    ELSE LET freq == IF frequency # NoFrequency THEN frequency
                     ELSE turn_idx + 2
         IN  ((turn_idx + 1) % freq) = 0

\* (mutation of assign: a falsy value is not stored)
assign_skips_falsy(v, val, turn_idx, format) ==
    IF ~Truthy(val) THEN v
    ELSE IF format # BaseFormat
    THEN [v EXCEPT !.value = DictSet(v.value, format, val)]
    ELSE [v EXCEPT !.value = DictSet(v.value, BaseFormat, val),
                   !.assign_cnt = v.assign_cnt + 1,
                   !.assignments = DictSet(v.assignments, turn_idx, val)]

\* (mutation of assign: an assignment under a format is counted and
\* recorded like one of the base value)
assign_counts_format(v, val, turn_idx, format) ==
    [v EXCEPT !.value = DictSet(v.value, format, val),
              !.assign_cnt = v.assign_cnt + 1,
              !.assignments = DictSet(v.assignments, turn_idx, val)]

\* Variable.assign(value, turn_idx, format)
assign(v, val, turn_idx, format) ==
    IF format # BaseFormat
    THEN [v EXCEPT !.value = DictSet(v.value, format, val)]
    ELSE [v EXCEPT !.value = DictSet(v.value, BaseFormat, val),
                   !.assign_cnt = v.assign_cnt + 1,
                   !.assignments = DictSet(v.assignments, turn_idx, val)]

\* Variable.backspace()
backspace(v) ==
    [v EXCEPT !.assignments =
                  IF Truthy(DictGet(v.assignments, v.assign_cnt))
                  THEN DictDel(v.assignments, v.assign_cnt)
                  ELSE v.assignments,
              !.assign_cnt = v.assign_cnt - 1]

\* Variable.replace(token, (leaf_variable, token_format)) for every
\* (token, result) pair of zip(tokens, results)
RECURSIVE replace_all(_, _, _)
replace_all(mapping, tokens, results) ==
    IF tokens = << >> \/ results = << >> THEN mapping
    ELSE replace_all(DictSet(mapping, Head(tokens), Head(results)),
                     Tail(tokens), Tail(results))

\* Variable.__str__: the tokens of _variables are substituted one after the
\* other, in dict order, with the value the referenced variable holds now; a
\* token never replaced (None), or a value that is not a str (None, a list,
\* a missing key), makes it raise
RECURSIVE Substitute(_, _, _, _)
Substitute(statement, tokens, mapping, vs) ==
    IF tokens = << >> THEN [ok |-> TRUE, text |-> statement]
    ELSE LET token == Head(tokens)
         IN  IF token \notin DOMAIN mapping
             THEN [ok |-> FALSE, text |-> << >>]
             ELSE LET var == mapping[token].variable
                      decoding == get_assignment(vs[var],
                                                 mapping[token].format)
                  IN  IF decoding.t # "str"
                      THEN [ok |-> FALSE, text |-> << >>]
                      ELSE Substitute(
                               str_replace(statement, token, decoding.s),
                               Tail(tokens), mapping, vs)
Str(instruction_raw, mapping, vs) ==
    Substitute(instruction_raw, get_tokens(instruction_raw), mapping, vs)

\* ------------------------------------------------- PromptGenerator.reduce
\* re.findall(pattern, text): the pattern is read as the alternation of its
\* literal chunks; the matches are the chunks of the text it accepts, in
\* order of occurrence
RECURSIVE findall(_, _)
findall(pattern, text) ==
    IF text = << >> THEN << >>
    ELSE IF \E i \in 1 .. Len(pattern) : pattern[i] = Head(text)
         THEN << <<Head(text)>> >> \o findall(pattern, Tail(text))
         ELSE findall(pattern, Tail(text))

\* str(list): "['m1', 'm2']"
RECURSIVE ListItems(_)
ListItems(lst) ==
    IF lst = << >> THEN << >>
    ELSE <<Lit("'")>> \o Head(lst) \o <<Lit("'")>>
         \o (IF Tail(lst) = << >> THEN << >> ELSE <<Lit(", ")>>)
         \o ListItems(Tail(lst))
ListStr(lst) == <<Lit("[")>> \o ListItems(lst) \o <<Lit("]")>>

\* eval(expression)(reduction) for the expressions the configurations use
ApplyFunc(expression, reduction) ==
    IF expression = FnFirst
    THEN IF reduction.t = "list" /\ reduction.l # << >>
         THEN StrV(reduction.l[1])
         ELSE IF reduction.t = "str" /\ reduction.s # << >>
              THEN StrV(<<reduction.s[1]>>)
              ELSE None
    ELSE IF expression = FnWrap
    THEN StrV(<<Lit("(")>> \o reduction.s \o <<Lit(")")>>)
    ELSE reduction
\* the call raises: '(' + x is a TypeError unless x is a str
FuncRaises(expression, reduction) ==
    expression = FnWrap /\ reduction.t # "str"

\* (mutation of Stages: the post_func expressions are applied last to first)
Stages_reversed(spec) ==
    (IF spec.post_regex # << >>
     THEN <<[kind |-> "regex", template |-> Lower(spec.post_regex)]>>
     ELSE << >>)
    \o [i \in 1 .. Len(spec.post_func) |->
           [kind |-> "func",
            template |-> spec.post_func[Len(spec.post_func) + 1 - i]]]

\* (mutation of Stages: the last post_func expression is not applied)
Stages_drop_last(spec) ==
    (IF spec.post_regex # << >>
     THEN <<[kind |-> "regex", template |-> Lower(spec.post_regex)]>>
     ELSE << >>)
    \o [i \in 1 .. Len(spec.post_func) - 1 |->
           [kind |-> "func", template |-> spec.post_func[i]]]

\* the decoding steps of reduce, in order: the post_regex (lower-cased) when
\* configured, then each post_func expression
Stages(spec) ==
    (IF spec.post_regex # << >>
     THEN <<[kind |-> "regex", template |-> Lower(spec.post_regex)]>>
     ELSE << >>)
    \o [i \in 1 .. Len(spec.post_func) |->
           [kind |-> "func", template |-> spec.post_func[i]]]

\* ------------------------------------ PromptGenerator._messages_compose
\* a turn of the conversation: (text, is_seed)
Turn(text, seed) == [text |-> text, seed |-> seed]

\* sep.join(texts)
RECURSIVE Join(_, _)
Join(texts, sep) ==
    IF texts = << >> THEN << >>
    ELSE IF Tail(texts) = << >> THEN Head(texts)
         ELSE Head(texts) \o <<Lit(sep)>> \o Join(Tail(texts), sep)

\* str.strip(): leading and trailing whitespace chunks are dropped
IsSpace(it) == ~IsTok(it) /\ it.lit \in {"", " ", "\n"}
RECURSIVE LStrip(_)
LStrip(text) ==
    IF text = << >> THEN << >>
    ELSE IF IsSpace(Head(text)) THEN LStrip(Tail(text)) ELSE text
RECURSIVE RStrip(_)
RStrip(text) ==
    IF text = << >> THEN << >>
    ELSE IF IsSpace(text[Len(text)])
         THEN RStrip(SubSeq(text, 1, Len(text) - 1)) ELSE text
Strip(text) == RStrip(LStrip(text))

\* [x[0] for x in self.turns if x[-1]] and [... if not x[-1]]
RECURSIVE TurnTexts(_, _)
TurnTexts(turns, seed) ==
    IF turns = << >> THEN << >>
    ELSE (IF Head(turns).seed = seed THEN <<Head(turns).text>> ELSE << >>)
         \o TurnTexts(Tail(turns), seed)

Message(role, content) == [role |-> role, content |-> content]

\* (mutation of NonSeedMessages: the role is never toggled)
NonSeedMessages_no_toggle(texts, role) ==
    [i \in 1 .. Len(texts) |-> Message(role, texts[i])]

\* the loop over non_seed_turns: one message per turn, the role toggled
\* after each
RECURSIVE NonSeedMessages(_, _)
NonSeedMessages(texts, role) ==
    IF texts = << >> THEN << >>
    ELSE <<Message(role, Head(texts))>>
         \o NonSeedMessages(Tail(texts),
                IF role = "assistant" THEN "user" ELSE "assistant")

\* the message list, given the text of str(self.instruction)
messages_compose(system, turns) ==
    <<Message("system", system),
      Message("user", Strip(Join(TurnTexts(turns, TRUE), "\n")))>>
    \o NonSeedMessages(TurnTexts(turns, FALSE), "assistant")

\* get_fewshot_example(turn_idx): "".join(full_example[:turn_idx + 1])
full_example ==
    <<Lit("example 1"), Lit("example 2"), Lit("example 3"),
      Lit("example 4"), Lit("example 5"), Lit("example 6")>>
get_fewshot_example(turn_idx) ==
    SubSeq(full_example, 1,
           IF turn_idx + 1 < Len(full_example) THEN turn_idx + 1
           ELSE Len(full_example))

\* the turns handed to run at a turn index: one seed turn, then the
\* exchanges made so far
ConversationAt(turn_idx) ==
    <<Turn(<<Lit("seed post")>>, TRUE)>>
    \o [i \in 1 .. 2 * turn_idx |->
           Turn(<<Lit(IF i % 2 = 1 THEN "bot says" ELSE "user says")>>,
                FALSE)]

\* ------------------------------------------------------------ the state
VARIABLES
    config,        \* name of the configuration document the engine was built on
    instruction,   \* self.instruction: a Variable (instruction_raw and
                   \* _variables: token -> (variable, format)) or a str
    variables,     \* self.variables: id -> Variable state
    master_lock,   \* self.variables_master_lock: holder or NoTask
    locks,         \* self.variables_locks: id -> holder or NoTask
    tasks,         \* _decode_token invocations submitted to self.threadPool
    queue,         \* task queue of the pool (FIFO)
    main,          \* the thread that calls run / backspace
    calls,         \* endpoint calls issued per variable in the current pass
    runLog,        \* one record per finished run
    ops,           \* per variable, the assignments ("A", or "N" for an
                   \* assignment of None) and backspaces ("B")
    test,          \* BasicBot.test
    passive,       \* BasicBot.passive
    optout_db,     \* DatabaseManager.optout_db: username -> record
    moderated_db,  \* DatabaseManager.moderated_db: post id -> record
    botLog         \* one record per call of BasicBot.moderate

\* the state of the prompt generator, and the state of the moderation bot
engine == <<config, instruction, variables, master_lock, locks, tasks, queue,
            main, calls, runLog, ops>>
bot == <<test, passive, optout_db, moderated_db, botLog>>
vars == <<engine, bot>>

NoTask == <<0>>
MainThread == << >>

Cfg == Config(config)
\* the few_shot_example argument of the constructor
few_shot_example == IF config = "NVC" THEN "nvc" ELSE "None"
\* self.instruction = Variable({"instruction": config_json['instruction']})
RootVariable(raw) ==
    [type |-> "Variable", instruction_raw |-> raw, tokens |-> << >>]
Declared == DOMAIN Cfg.variables
\* self.threadPool = ThreadPool(): as many workers as the host has cpus;
\* configuration BIG runs on a single-cpu host
PoolSize == IF config = "BIG" THEN 1 ELSE NumWorkers

NewTask(token) ==
    [token |-> token, pc |-> "queued", fin |-> 0, err |-> "",
     stage |-> 0, red |-> None, ctx |-> << >>]

\* tasks spawned by one threadPool.map call of owner (a task, or the main
\* thread for the root instruction)
Children(owner) ==
    {id \in DOMAIN tasks :
        /\ Len(id) = Len(owner) + 1
        /\ SubSeq(id, 1, Len(owner)) = owner}
Owner(id) == SubSeq(id, 1, Len(id) - 1)

\* Pool.map cuts the tasks of one call into chunks of consecutive tasks:
\* chunksize, extra = divmod(len(iterable), len(pool) * 4), plus one when
\* extra; a worker takes a whole chunk and runs its tasks one after the
\* other (mapstar), and an exception ends the chunk
ChunkSize(n) ==
    IF n % (4 * PoolSize) = 0 THEN n \div (4 * PoolSize)
    ELSE n \div (4 * PoolSize) + 1
IsChunkHead(i, n) == (i - 1) % ChunkSize(n) = 0
ChunkHead(id) ==
    IsChunkHead(id[Len(id)], Cardinality(Children(Owner(id))))
ChunkPred(id) == [id EXCEPT ![Len(id)] = @ - 1]

Ended(id) == tasks[id].pc \in {"done", "failed"}
\* the task is never started: an earlier task of its chunk raised
RECURSIVE Skipped(_)
Skipped(id) ==
    /\ tasks[id].pc = "queued"
    /\ ~ChunkHead(id)
    /\ (tasks[ChunkPred(id)].pc = "failed" \/ Skipped(ChunkPred(id)))
Finished(id) == Ended(id) \/ Skipped(id)
\* the worker of the chunk is about to start the task
NextOfChunk(id) ==
    /\ tasks[id].pc = "queued"
    /\ ~ChunkHead(id)
    /\ tasks[ChunkPred(id)].pc = "done"
\* a worker thread is occupied by the task
Running(id) == tasks[id].pc \notin {"queued", "done", "failed"} \/ NextOfChunk(id)
Busy == Cardinality({id \in DOMAIN tasks : Running(id)})

\* (mutation of Joined: map returns as soon as one task raised)
Joined_first_failure(owner) ==
    \/ \A c \in Children(owner) : Finished(c)
    \/ \E c \in Children(owner) : tasks[c].pc = "failed"

\* threadPool.map returns (or raises) once every chunk of the call finished
Joined(owner) == \A c \in Children(owner) : Finished(c)
MapRaises(owner) == \E c \in Children(owner) : tasks[c].pc = "failed"
\* the exception map re-raises: the first one stored
MapError(owner) ==
    LET failed == {c \in Children(owner) : tasks[c].pc = "failed"}
        first == CHOOSE c \in failed :
                     \A d \in failed : tasks[c].fin <= tasks[d].fin
    IN  tasks[first].err

\* return value of _decode_token: (leaf_variable, token_format)
TaskResult(id) ==
    [variable |-> token_root(tasks[id].token),
     format |-> token_format(tasks[id].token)]
\* the results in the order the tasks finished (imap_unordered)
map_results_unordered(owner, n) ==
    [i \in 1 .. n |->
        TaskResult(CHOOSE c \in Children(owner) : tasks[c].fin = i)]
\* the list threadPool.map returns: the results in the order of the tokens
map_results(owner, n) == [i \in 1 .. n |-> TaskResult(owner \o <<i>>)]

\* a look-up that hands out a lock for any root
HasLock_any(k) == TRUE
\* self.variables_locks[token_root] finds a lock
HasLock(k) == k \in DOMAIN locks
\* an acquisition that does not exclude the holder
LockFree_no_exclusion(k) == TRUE
\* variable_lock can be acquired
LockFree(k) == locks[k] = NoTask

\* number of siblings that finished before, plus one
FinRank(id) ==
    LET owner == SubSeq(id, 1, Len(id) - 1)
    IN  Cardinality({c \in Children(owner) : Ended(c)}) + 1

\* the task table after one step: task id gets record rec, the tasks in
\* drop (joined children) are forgotten, and threadPool.map(_decode_token,
\* tokens) of owner makes one new task per token and queues the chunks
\* (each stands in the queue by its first task)
SetTasks(id, rec, drop, owner, tokens) ==
    LET new == {owner \o <<i>> : i \in 1 .. Len(tokens)}
        all == [i \in 1 .. Len(tokens) |-> owner \o <<i>>]
        head(t) == IsChunkHead(t[Len(t)], Len(tokens))
    IN  /\ tasks' = [t \in (DOMAIN tasks \ drop) \cup new |->
                       IF t \in new THEN NewTask(tokens[t[Len(t)]])
                       ELSE IF t = id THEN rec ELSE tasks[t]]
        /\ queue' = queue \o SelectSeq(all, head)
Step(id, rec) == SetTasks(id, rec, {}, id, << >>)

Root(id) == token_root(tasks[id].token)
Failed(id, err) ==
    [tasks[id] EXCEPT !.pc = "failed", !.err = err, !.fin = FinRank(id)]
Done(id) == [tasks[id] EXCEPT !.pc = "done", !.fin = FinRank(id)]

\* ------------------------------------------------------------------ Init
EngineInit ==
    /\ config \in ConfigNames
    /\ instruction = RootVariable(Cfg.instruction)
    /\ variables = [k \in Declared |-> NewVariable]
    /\ master_lock = NoTask
    /\ locks = [k \in Declared |-> NoTask]
    /\ tasks = << >>
    /\ queue = << >>
    /\ main = [pc |-> "idle", turn_idx |-> 0, turns |-> << >>,
               system |-> << >>, order |-> << >>, messages |-> << >>]
    /\ calls = [k \in Declared |-> 0]
    /\ runLog = << >>
    /\ ops = [k \in Declared |-> << >>]
\* no moderation bot runs beside the prompt generator
Init ==
    /\ EngineInit
    /\ test = FALSE /\ passive = FALSE
    /\ optout_db = << >> /\ moderated_db = << >> /\ botLog = << >>

\* run and backspace calls made so far
Backspaces ==
    LET k == CHOOSE d \in Declared : TRUE
    IN  Len(SelectSeq(ops[k], LAMBDA o : o = "B"))
OpsMade == Len(runLog) + Backspaces

\* --------------------------------------------------- PromptGenerator.run
\* the tokens of the root instruction in the order their tasks finished
CompletionOrder ==
    [i \in 1 .. Cardinality(Children(MainThread)) |->
        tasks[CHOOSE c \in Children(MainThread) : tasks[c].fin = i].token]

\* what a finished run leaves: its outcome, the calls it made, and the
\* variables that hold a value recorded for its turn index when it ends
RunRecord(outcome, err, system) ==
    [turn_idx |-> main.turn_idx, calls |-> calls, outcome |-> outcome,
     err |-> err, system |-> system,
     assigned |-> {k \in Declared :
                     /\ ~IsNone(get_value(variables[k]))
                     /\ ~IsNone(DictGet(variables[k].assignments,
                                        main.turn_idx))}]

\* run(turns, turn_idx) up to the threadPool.map of the root instruction;
\* when self.instruction is a str, variable.get_tokens() raises
Run(turn_idx) ==
    /\ main.pc = "idle"
    /\ OpsMade < MaxOps
    /\ calls' = [k \in Declared |-> 0]
    /\ IF instruction.type = "Variable"
       THEN /\ main' = [pc |-> "decode", turn_idx |-> turn_idx,
                        turns |-> ConversationAt(turn_idx),
                        system |-> << >>, order |-> << >>,
                        messages |-> << >>]
            /\ SetTasks(NoTask, None, {}, MainThread,
                        get_tokens(instruction.instruction_raw))
            /\ UNCHANGED runLog
       ELSE /\ main' = [pc |-> "idle", turn_idx |-> turn_idx,
                        turns |-> ConversationAt(turn_idx),
                        system |-> << >>, order |-> << >>,
                        messages |-> << >>]
            /\ runLog' = Append(runLog,
                    [turn_idx |-> turn_idx, calls |-> calls',
                     outcome |-> "error", err |-> "AttributeError",
                     system |-> << >>,
                     assigned |-> {k \in Declared :
                         /\ ~IsNone(get_value(variables[k]))
                         /\ ~IsNone(DictGet(variables[k].assignments,
                                            turn_idx))}])
            /\ UNCHANGED <<tasks, queue>>
    /\ UNCHANGED <<bot, config, instruction, variables, master_lock, locks, ops>>

\* (mutation of JoinRoot: the final call is made although the map raised)
JoinRoot_generates_on_error ==
    /\ main.pc = "decode"
    /\ Joined(MainThread)
    /\ LET raw == instruction.instruction_raw
           tokens == get_tokens(raw)
           mapping == replace_all(instruction.tokens, tokens,
                                  map_results(MainThread, Len(tokens)))
           resolved == Str(raw, mapping, variables)
           system == IF few_shot_example = "nvc"
                     THEN resolved.text \o <<Lit("\n")>>
                          \o get_fewshot_example(main.turn_idx)
                          \o <<Lit("\n")>>
                     ELSE resolved.text
       IN  IF MapRaises(MainThread)
           THEN /\ runLog' = Append(runLog,
                        RunRecord("error", MapError(MainThread), << >>))
                /\ main' = [main EXCEPT !.pc = "generate"]
                /\ UNCHANGED instruction
           ELSE IF ~resolved.ok
           THEN /\ instruction' = [instruction EXCEPT !.tokens = mapping]
                /\ main' = [main EXCEPT !.pc = "idle"]
                /\ runLog' = Append(runLog,
                        RunRecord("error", "TypeError", << >>))
           ELSE /\ instruction' =
                      IF few_shot_example = "nvc"
                      THEN [type |-> "str", instruction_raw |-> system,
                            tokens |-> << >>]
                      ELSE [instruction EXCEPT !.tokens = mapping]
                /\ main' = [main EXCEPT
                      !.pc = "generate",
                      !.system = system,
                      !.order = CompletionOrder,
                      !.messages = messages_compose(system, main.turns)]
                /\ UNCHANGED runLog
    /\ SetTasks(NoTask, None, Children(MainThread), MainThread, << >>)
    /\ UNCHANGED <<bot, config, variables, master_lock, locks, calls, ops>>

\* _decode_tokens(self.instruction) returns or raises; then
\* _messages_compose: in the 'nvc' mode self.instruction is rebound to the
\* str of the instruction followed by the exemplar; the system message is
\* str(self.instruction)
JoinRoot ==
    /\ main.pc = "decode"
    /\ Joined(MainThread)
    /\ LET raw == instruction.instruction_raw
           tokens == get_tokens(raw)
           mapping == replace_all(instruction.tokens, tokens,
                                  map_results(MainThread, Len(tokens)))
           resolved == Str(raw, mapping, variables)
           system == IF few_shot_example = "nvc"
                     THEN resolved.text \o <<Lit("\n")>>
                          \o get_fewshot_example(main.turn_idx)
                          \o <<Lit("\n")>>
                     ELSE resolved.text
       IN  IF MapRaises(MainThread)
           THEN /\ runLog' = Append(runLog,
                        RunRecord("error", MapError(MainThread), << >>))
                /\ main' = [main EXCEPT !.pc = "idle"]
                /\ UNCHANGED instruction
           ELSE IF ~resolved.ok
           THEN /\ instruction' = [instruction EXCEPT !.tokens = mapping]
                /\ main' = [main EXCEPT !.pc = "idle"]
                /\ runLog' = Append(runLog,
                        RunRecord("error", "TypeError", << >>))
           ELSE /\ instruction' =
                      IF few_shot_example = "nvc"
                      THEN [type |-> "str", instruction_raw |-> system,
                            tokens |-> << >>]
                      ELSE [instruction EXCEPT !.tokens = mapping]
                /\ main' = [main EXCEPT
                      !.pc = "generate",
                      !.system = system,
                      !.order = CompletionOrder,
                      !.messages = messages_compose(system, main.turns)]
                /\ UNCHANGED runLog
    /\ SetTasks(NoTask, None, Children(MainThread), MainThread, << >>)
    /\ UNCHANGED <<bot, config, variables, master_lock, locks, calls, ops>>

\* the final call on the default endpoint returns: run returns
\* response.strip()
GenerateReturn ==
    /\ main.pc = "generate"
    /\ main' = [main EXCEPT !.pc = "idle"]
    /\ runLog' = Append(runLog, RunRecord("ok", "", main.system))
    /\ UNCHANGED <<bot, config, instruction, variables, master_lock, locks,
                   tasks, queue, calls, ops>>

\* the final call on the default endpoint raises
GenerateFail ==
    /\ main.pc = "generate"
    /\ Cfg.generate_fails
    /\ main' = [main EXCEPT !.pc = "idle"]
    /\ runLog' = Append(runLog, RunRecord("error", "EndpointError", << >>))
    /\ UNCHANGED <<bot, config, instruction, variables, master_lock, locks,
                   tasks, queue, calls, ops>>

\* PromptGenerator.backspace: Variable.backspace on every variable
Backspace ==
    /\ main.pc = "idle"
    /\ OpsMade < MaxOps
    /\ variables' = [k \in Declared |-> backspace(variables[k])]
    /\ ops' = [k \in Declared |-> Append(ops[k], "B")]
    /\ UNCHANGED <<bot, config, instruction, master_lock, locks, tasks, queue,
                   main, calls, runLog>>

\* ------------------------------- PromptGenerator._decode_tokens._decode_token
\* a free worker of the pool takes the next task of the queue
Pickup(id) ==
    /\ queue # << >> /\ id = Head(queue)
    /\ Busy < PoolSize
    /\ tasks' = [tasks EXCEPT ![id].pc = "running"]
    /\ queue' = Tail(queue)
    /\ UNCHANGED <<bot, config, instruction, variables, master_lock, locks,
                   main, calls, runLog, ops>>

\* the worker that finished a task of a chunk starts the next one
ChunkNext(id) ==
    /\ NextOfChunk(id)
    /\ tasks' = [tasks EXCEPT ![id].pc = "running"]
    /\ UNCHANGED <<bot, config, instruction, variables, master_lock, locks,
                   queue, main, calls, runLog, ops>>

\* with self.variables_master_lock: (enter)
MasterAcquire(id) ==
    /\ tasks[id].pc = "running"
    /\ master_lock = NoTask
    /\ master_lock' = id
    /\ Step(id, [tasks[id] EXCEPT !.pc = "master"])
    /\ UNCHANGED <<bot, config, instruction, variables, locks, main, calls,
                   runLog, ops>>

\* (mutation of LookupLock: the master lock is kept after the look-up)
LookupLock_keeps_master(id) ==
    /\ tasks[id].pc = "master"
    /\ IF HasLock(Root(id))
       THEN Step(id, [tasks[id] EXCEPT !.pc = "wait_lock"])
       ELSE Step(id, Failed(id, "KeyError"))
    /\ UNCHANGED <<bot, config, instruction, variables, master_lock, locks, main,
                   calls, runLog, ops>>

\* variable_lock = self.variables_locks[token_root] (KeyError for a root
\* that is not declared), and the master lock is left
LookupLock(id) ==
    /\ tasks[id].pc = "master"
    /\ master_lock' = NoTask
    /\ IF HasLock(Root(id))
       THEN Step(id, [tasks[id] EXCEPT !.pc = "wait_lock"])
       ELSE Step(id, Failed(id, "KeyError"))
    /\ UNCHANGED <<bot, config, instruction, variables, locks, main, calls,
                   runLog, ops>>

\* (mutation of AcquireCheck: the variable is resolved whatever the gate
\* says)
AcquireCheck_ungated(id) ==
    /\ tasks[id].pc = "wait_lock"
    /\ LockFree(Root(id))
    /\ locks' = [locks EXCEPT ![Root(id)] = id]
    /\ SetTasks(id, [tasks[id] EXCEPT !.pc = "decode"], {}, id,
                get_tokens(Cfg.variables[Root(id)].instruction))
    /\ UNCHANGED <<bot, config, instruction, variables, master_lock, main, calls,
                   runLog, ops>>

\* (mutation of AcquireCheck: the variable lock is left before the tokens of
\* the variable are mapped on the pool)
AcquireCheck_lock_released(id) ==
    /\ tasks[id].pc = "wait_lock"
    /\ LockFree(Root(id))
    /\ LET k == Root(id)
           spec == Cfg.variables[k]
       IN  IF is_assignable(variables[k], spec.frequency, main.turn_idx)
           THEN SetTasks(id, [tasks[id] EXCEPT !.pc = "decode"], {},
                         id, get_tokens(spec.instruction))
           ELSE Step(id, Done(id))
    /\ UNCHANGED <<bot, config, instruction, variables, master_lock, locks, main,
                   calls, runLog, ops>>

\* with variable_lock: (enter), leaf_variable.is_assignable(self.turn_idx):
\* when assignable, self._decode_tokens(leaf_variable) maps its tokens on the
\* pool; otherwise the lock is left and the task returns
AcquireCheck(id) ==
    /\ tasks[id].pc = "wait_lock"
    /\ LockFree(Root(id))
    /\ LET k == Root(id)
           spec == Cfg.variables[k]
       IN  IF is_assignable(variables[k], spec.frequency, main.turn_idx)
           THEN /\ locks' = [locks EXCEPT ![k] = id]
                /\ SetTasks(id, [tasks[id] EXCEPT !.pc = "decode"], {},
                            id, get_tokens(spec.instruction))
           ELSE /\ Step(id, Done(id))
                /\ UNCHANGED locks
    /\ UNCHANGED <<bot, config, instruction, variables, master_lock, main, calls,
                   runLog, ops>>

\* (mutation of JoinDecode: the endpoint call does not wait for the map of
\* the tokens of leaf_variable)
JoinDecode_no_wait(id) ==
    /\ tasks[id].pc = "decode"
    /\ LET k == Root(id)
           raw == Cfg.variables[k].instruction
           tokens == get_tokens(raw)
           mapping == replace_all(variables[k].tokens, tokens,
                                  map_results(id, Len(tokens)))
           sub == Str(raw, mapping, variables)
       IN  IF MapRaises(id)
           THEN /\ SetTasks(id, Failed(id, MapError(id)), Children(id),
                            id, << >>)
                /\ locks' = [locks EXCEPT ![k] = NoTask]
                /\ UNCHANGED <<variables, calls>>
           ELSE /\ variables' = [variables EXCEPT ![k].tokens = mapping]
                /\ IF sub.ok
                   THEN /\ SetTasks(id, [tasks[id] EXCEPT !.pc = "call",
                                        !.ctx = Strip(Join(
                                            [i \in 1 .. Len(main.turns) |->
                                                main.turns[i].text]
                                            \o <<sub.text>>, "\n"))],
                                    Children(id), id, << >>)
                        /\ calls' = [calls EXCEPT ![k] = @ + 1]
                        /\ UNCHANGED locks
                   ELSE /\ SetTasks(id, Failed(id, "TypeError"),
                                    Children(id), id, << >>)
                        /\ locks' = [locks EXCEPT ![k] = NoTask]
                        /\ UNCHANGED calls
    /\ UNCHANGED <<bot, config, instruction, master_lock, main, runLog, ops>>

\* the map of leaf_variable's tokens returned or raised; on return
\* sub_instruction = str(leaf_variable) and the endpoint call is issued
JoinDecode(id) ==
    /\ tasks[id].pc = "decode"
    /\ Joined(id)
    /\ LET k == Root(id)
           raw == Cfg.variables[k].instruction
           tokens == get_tokens(raw)
           mapping == replace_all(variables[k].tokens, tokens,
                                  map_results(id, Len(tokens)))
           sub == Str(raw, mapping, variables)
       IN  IF MapRaises(id)
           THEN /\ SetTasks(id, Failed(id, MapError(id)), Children(id),
                            id, << >>)
                /\ locks' = [locks EXCEPT ![k] = NoTask]
                /\ UNCHANGED <<variables, calls>>
           ELSE /\ variables' = [variables EXCEPT ![k].tokens = mapping]
                /\ IF sub.ok
                   THEN /\ SetTasks(id, [tasks[id] EXCEPT !.pc = "call",
                                        !.ctx = Strip(Join(
                                            [i \in 1 .. Len(main.turns) |->
                                                main.turns[i].text]
                                            \o <<sub.text>>, "\n"))],
                                    Children(id), id, << >>)
                        /\ calls' = [calls EXCEPT ![k] = @ + 1]
                        /\ UNCHANGED locks
                   ELSE /\ SetTasks(id, Failed(id, "TypeError"),
                                    Children(id), id, << >>)
                        /\ locks' = [locks EXCEPT ![k] = NoTask]
                        /\ UNCHANGED calls
    /\ UNCHANGED <<bot, config, instruction, master_lock, main, runLog, ops>>

\* the endpoint returns: leaf_variable['response'] = ..., reduce starts
EndpointReturn(id) ==
    /\ tasks[id].pc = "call"
    /\ \E reply \in Cfg.variables[Root(id)].replies :
        /\ variables' = [variables EXCEPT
                             ![Root(id)].response = StrV(reply)]
        /\ Step(id, [tasks[id] EXCEPT !.pc = "reduce", !.stage = 1,
                                      !.red = StrV(reply)])
    /\ UNCHANGED <<bot, config, instruction, master_lock, locks, main, calls,
                   runLog, ops>>

\* an endpoint failure that is cached as a None assignment
EndpointFail_cached(id) ==
    /\ tasks[id].pc = "call"
    /\ Cfg.variables[Root(id)].can_fail
    /\ Step(id, Failed(id, "EndpointError"))
    /\ locks' = [locks EXCEPT ![Root(id)] = NoTask]
    /\ variables' = [variables EXCEPT
           ![Root(id)] = assign(@, None, main.turn_idx, BaseFormat)]
    /\ UNCHANGED <<bot, config, instruction, master_lock, main, calls,
                   runLog, ops>>

\* (mutation of EndpointFail: the exception leaves the variable lock held)
EndpointFail_keeps_lock(id) ==
    /\ tasks[id].pc = "call"
    /\ Cfg.variables[Root(id)].can_fail
    /\ Step(id, Failed(id, "EndpointError"))
    /\ UNCHANGED <<bot, config, instruction, variables, master_lock, locks, main,
                   calls, runLog, ops>>

\* the endpoint raises: the exception leaves the with block
EndpointFail(id) ==
    /\ tasks[id].pc = "call"
    /\ Cfg.variables[Root(id)].can_fail
    /\ Step(id, Failed(id, "EndpointError"))
    /\ locks' = [locks EXCEPT ![Root(id)] = NoTask]
    /\ UNCHANGED <<bot, config, instruction, variables, master_lock, main, calls,
                   runLog, ops>>

\* (mutation of Reduce: the variable lock is left before the post-processing
\* templates are decoded)
Reduce_lock_released(id) ==
    /\ tasks[id].pc = "reduce"
    /\ LET k == Root(id)
           stages == Stages(Cfg.variables[k])
       IN  IF tasks[id].stage <= Len(stages)
           THEN /\ SetTasks(id, [tasks[id] EXCEPT !.pc = "post"], {}, id,
                      get_tokens(stages[tasks[id].stage].template))
                /\ locks' = [locks EXCEPT ![k] = NoTask]
                /\ UNCHANGED <<variables, ops>>
           ELSE /\ variables' = [variables EXCEPT
                      ![k] = assign(@, tasks[id].red, main.turn_idx,
                                    BaseFormat)]
                /\ ops' = [ops EXCEPT ![k] =
                      Append(@, IF IsNone(tasks[id].red) THEN "N" ELSE "A")]
                /\ locks' = [locks EXCEPT ![k] = NoTask]
                /\ Step(id, Done(id))
    /\ UNCHANGED <<bot, config, instruction, master_lock, main, calls, runLog>>

\* reduce: the next post_regex / post_func template is decoded on the pool;
\* after the last one reduce returns, the value is assigned for the turn and
\* the variable lock is left
Reduce(id) ==
    /\ tasks[id].pc = "reduce"
    /\ LET k == Root(id)
           stages == Stages(Cfg.variables[k])
       IN  IF tasks[id].stage <= Len(stages)
           THEN /\ SetTasks(id, [tasks[id] EXCEPT !.pc = "post"], {}, id,
                      get_tokens(stages[tasks[id].stage].template))
                /\ UNCHANGED <<variables, locks, ops>>
           ELSE /\ variables' = [variables EXCEPT
                      ![k] = assign(@, tasks[id].red, main.turn_idx,
                                    BaseFormat)]
                /\ ops' = [ops EXCEPT ![k] =
                      Append(@, IF IsNone(tasks[id].red) THEN "N" ELSE "A")]
                /\ locks' = [locks EXCEPT ![k] = NoTask]
                /\ Step(id, Done(id))
    /\ UNCHANGED <<bot, config, instruction, master_lock, main, calls, runLog>>

\* the map of a post_regex / post_func template returned or raised; on
\* return the template is turned into text and applied to the reduction
JoinPost(id) ==
    /\ tasks[id].pc = "post"
    /\ Joined(id)
    /\ LET k == Root(id)
           stage == Stages(Cfg.variables[k])[tasks[id].stage]
           tokens == get_tokens(stage.template)
           mapping == replace_all(<< >>, tokens,
                                  map_results(id, Len(tokens)))
           text == Str(stage.template, mapping, variables)
           red == tasks[id].red
           matches == findall(text.text, Lower(red.s))
       IN  IF \/ MapRaises(id)
              \/ ~text.ok
              \/ (stage.kind = "func" /\ FuncRaises(text.text, red))
           THEN /\ SetTasks(id, Failed(id, IF MapRaises(id)
                                           THEN MapError(id)
                                           ELSE "TypeError"),
                            Children(id), id, << >>)
                /\ locks' = [locks EXCEPT ![k] = NoTask]
                /\ UNCHANGED variables
           ELSE IF stage.kind = "regex"
           THEN /\ variables' = [variables EXCEPT
                      ![k] = assign(@, StrV(ListStr(matches)),
                                    main.turn_idx, ListFormat)]
                /\ SetTasks(id, [tasks[id] EXCEPT !.pc = "reduce",
                                     !.stage = @ + 1, !.red = ListV(matches)],
                            Children(id), id, << >>)
                /\ UNCHANGED locks
           ELSE /\ SetTasks(id, [tasks[id] EXCEPT !.pc = "reduce",
                                     !.stage = @ + 1,
                                     !.red = ApplyFunc(text.text, red)],
                            Children(id), id, << >>)
                /\ UNCHANGED <<variables, locks>>
    /\ UNCHANGED <<bot, config, instruction, master_lock, main, calls, runLog,
                   ops>>

\* ------------------------------------------------------------------ Next
Next ==
    \/ \E turn_idx \in Turns : Run(turn_idx)
    \/ JoinRoot
    \/ GenerateReturn
    \/ GenerateFail
    \/ Backspace
    \/ \E id \in DOMAIN tasks : Pickup(id)
    \/ \E id \in DOMAIN tasks : ChunkNext(id)
    \/ \E id \in DOMAIN tasks : MasterAcquire(id)
    \/ \E id \in DOMAIN tasks : LookupLock(id)
    \/ \E id \in DOMAIN tasks : AcquireCheck(id)
    \/ \E id \in DOMAIN tasks : JoinDecode(id)
    \/ \E id \in DOMAIN tasks : EndpointReturn(id)
    \/ \E id \in DOMAIN tasks : EndpointFail(id)
    \/ \E id \in DOMAIN tasks : Reduce(id)
    \/ \E id \in DOMAIN tasks : JoinPost(id)

Spec == Init /\ [][Next]_vars

\* ------------------------------------------- class Variable on its own
\* The methods of one Variable object called directly, in any order, with
\* values, turn indices and formats drawn from small sets: the states of a
\* Variable whatever its user does.
Values == {None, StrV(<< >>), StrV(<<Lit("v")>>), ListV(<< <<Lit("v")>> >>)}
Formats == {BaseFormat, ListFormat}

InitVariable ==
    /\ Init
    /\ config = "W"

CallAssign(k, val, turn_idx, format) ==
    /\ Len(ops[k]) < MaxVariableOps
    /\ variables' = [variables EXCEPT ![k] = assign(@, val, turn_idx, format)]
    /\ ops' = [ops EXCEPT ![k] =
          Append(@, IF format # BaseFormat THEN "F"
                    ELSE IF IsNone(val) THEN "N" ELSE "A")]
    /\ UNCHANGED <<bot, config, instruction, master_lock, locks, tasks, queue,
                   main, calls, runLog>>

CallBackspace(k) ==
    /\ Len(ops[k]) < MaxVariableOps
    /\ variables' = [variables EXCEPT ![k] = backspace(@)]
    /\ ops' = [ops EXCEPT ![k] = Append(@, "B")]
    /\ UNCHANGED <<bot, config, instruction, master_lock, locks, tasks, queue,
                   main, calls, runLog>>

NextVariable ==
    \/ \E k \in Declared : \E val \in Values : \E turn_idx \in Turns :
          \E format \in Formats : CallAssign(k, val, turn_idx, format)
    \/ \E k \in Declared : CallBackspace(k)

SpecVariable == InitVariable /\ [][NextVariable]_vars

\* ================================================================ claims
Frequency(k) == Cfg.variables[k].frequency
InPass == main.pc = "decode"
\* the variable holds a value that is not None, assigned for turn t
AssignedFor(k, t) ==
    /\ ~IsNone(get_value(variables[k]))
    /\ ~IsNone(DictGet(variables[k].assignments, t))
NoBackspace(k) == \A i \in 1 .. Len(ops[k]) : ops[k][i] # "B"
NeverAssigned(k) == \A i \in 1 .. Len(ops[k]) : ops[k][i] \notin {"A", "N"}
NoneAssigned(k) == \E i \in 1 .. Len(ops[k]) : ops[k][i] = "N"

\* C1 (as stated): in one resolution pass the endpoint is called at most
\* once per variable, for every interleaving and dependency shape.
C1_AtMostOneCallPerPass == \A k \in Declared : calls[k] <= 1

\* C1 (amended): during a pass, once a variable holds a value that is not
\* None assigned for the current turn index, no step issues a further
\* endpoint call for it.
C1_NoCallOnceAssigned ==
    [][\A k \in Declared :
          (InPass /\ AssignedFor(k, main.turn_idx))
              => calls'[k] = calls[k]]_vars

\* a pass over the two-parent shape in which both parents were decoded and
\* the shared variable was called once
C1_Witness ==
    /\ config = "DIA" /\ InPass /\ Joined(MainThread)
    /\ ~MapRaises(MainThread)
    /\ calls["p"] = 1 /\ calls["q"] = 1 /\ calls["c"] = 1

\* C2: one variable w with frequency 2, template "<w>", endpoint returning
\* "42": the runs at turns 0, 1, 2 make 1, 1, 0 endpoint calls for w and
\* each composes the text "42".
C2_FrequencyTwoRuns ==
    \A i \in 1 .. Len(runLog) :
        (/\ config = "W" /\ NoBackspace("w") /\ i <= 3
         /\ \A j \in 1 .. i : runLog[j].turn_idx = j - 1)
        => /\ runLog[i].outcome = "ok"
           /\ runLog[i].system = <<Lit("42")>>
           /\ runLog[i].calls["w"] = (IF i = 3 THEN 0 ELSE 1)

C2_Witness ==
    /\ config = "W" /\ NoBackspace("w") /\ Len(runLog) = 3
    /\ \A j \in 1 .. 3 : runLog[j].turn_idx = j - 1
    /\ runLog[3].calls["w"] = 0 /\ runLog[3].system = <<Lit("42")>>

\* C3: resolving "<x> <x-list>" makes exactly one call for x whichever task
\* takes the lock first, and <x-list> is replaced by the "list" value the
\* post-processing of that call cached.
XLText ==
    <<Lit("ab"), Lit(" ")>>
    \o ListStr(<< <<Lit("ab")>>, <<Lit("ab")>> >>)
C4_FirstUseBypass ==
    \A k \in Declared : \A t \in QueryTurns : \A f \in Frequencies :
        NeverAssigned(k) => is_assignable(variables[k], f, t)

\* a variable that was given a "list" value and a backspace, never a base
\* value, queried at turn 0 with frequency 2
C4_Witness ==
    /\ config = "W"
    /\ ops["w"] = <<"F", "B">>
    /\ ListFormat \in DOMAIN variables["w"].value
    /\ is_assignable(variables["w"], 2, 0)

C6_FrequencyGate ==
    \A k \in Declared : \A t \in QueryTurns : \A f \in Frequencies :
        (/\ ~IsNone(get_value(variables[k]))
         /\ t \notin DOMAIN variables[k].assignments)
        => /\ is_assignable(variables[k], f, t)
                = (((t + 1) % (IF f # NoFrequency THEN f ELSE t + 2)) = 0)
           /\ (f = 2 /\ t = 1 => is_assignable(variables[k], f, t))
           /\ (f = NoFrequency /\ t \in {1, 2, 4}
                  => ~is_assignable(variables[k], f, t))

\* a variable assigned at turn 0 only: at turn 1 the gate passes with
\* frequency 2 and fails with no frequency
C6_Witness ==
    /\ config = "W"
    /\ ops["w"] = <<"A">>
    /\ DOMAIN variables["w"].assignments = {0}
    /\ ~IsNone(get_value(variables["w"]))
    /\ is_assignable(variables["w"], 2, 1)
    /\ ~is_assignable(variables["w"], NoFrequency, 1)

\* C7: "<a> and <b>" with endpoints returning X and Y composes "X and Y"
\* in every interleaving of the two tasks.
C7_SubstitutionOrder ==
    config = "AB" =>
        /\ \A i \in 1 .. Len(runLog) :
              runLog[i].outcome = "ok"
                  => runLog[i].system = <<Lit("X"), Lit(" and "), Lit("Y")>>
        /\ main.pc = "generate"
              => main.system = <<Lit("X"), Lit(" and "), Lit("Y")>>

\* the task of <b> finished before the task of <a>
C7_Witness ==
    /\ config = "AB" /\ main.pc = "generate"
    /\ main.order = << <<"b">>, <<"a">> >>
    /\ calls["a"] = 1 /\ calls["b"] = 1
    /\ main.system = <<Lit("X"), Lit(" and "), Lit("Y")>>

\* C8: the task of a token whose root is not declared fails at the look-up
\* of its lock, before any endpoint call for it; nothing is stored for that
\* root and the run fails.
C8_UndeclaredFailsFast ==
    /\ \A id \in DOMAIN tasks :
          Root(id) \notin Declared
              => /\ tasks[id].pc \in {"queued", "running", "master", "failed"}
                 /\ tasks[id].ctx = << >>
                 /\ (tasks[id].pc = "failed" => tasks[id].err = "KeyError")
    /\ DOMAIN variables = Declared /\ DOMAIN calls = Declared
    /\ config = "UND" =>
          /\ main.pc # "generate"
          /\ \A i \in 1 .. Len(runLog) :
                runLog[i].outcome = "error" /\ runLog[i].err = "KeyError"

\* a run over "<a> <u>" ended with the error of the undeclared root u
C8_Witness ==
    /\ config = "UND" /\ Len(runLog) >= 1
    /\ runLog[1].outcome = "error" /\ runLog[1].err = "KeyError"

\* C9: a step in which a variable's endpoint call raises leaves the
\* variable's values, history and counter as they were, and the failure of a
\* task is handed to its owner: the owning task fails with it, and at the
\* root the run ends with the error.
C9_FailedCallNotCached ==
    [][\A id \in DOMAIN tasks :
          /\ (tasks[id].pc = "call" /\ id \in DOMAIN tasks'
                 /\ tasks'[id].pc = "failed")
             => /\ variables'[Root(id)] = variables[Root(id)]
                /\ tasks'[id].err = "EndpointError"
          /\ (tasks[id].pc = "failed" /\ id \notin DOMAIN tasks')
             => IF Owner(id) = MainThread
                THEN /\ main'.pc = "idle"
                     /\ runLog' # runLog
                     /\ runLog'[Len(runLog')].outcome = "error"
                     /\ runLog'[Len(runLog')].err
                            \in {tasks[c].err : c \in
                                    {d \in Children(MainThread) :
                                        tasks[d].pc = "failed"}}
                ELSE /\ tasks'[Owner(id)].pc = "failed"
                     /\ tasks'[Owner(id)].err
                            \in {tasks[c].err : c \in
                                    {d \in Children(Owner(id)) :
                                        tasks[d].pc = "failed"}}
      ]_vars

\* a run ended with the endpoint error of a, and a is still unassigned
C9_Witness ==
    /\ config = "AB" /\ Len(runLog) = 1
    /\ runLog[1].outcome = "error" /\ runLog[1].err = "EndpointError"
    /\ variables["a"].assign_cnt = 0
    /\ variables["a"].value = << >>
    /\ variables["a"].assignments = << >>

\* C10: after exactly one base-format assignment, one Backspace leaves the
\* variable with counter 0 and an empty history.
C10_BackspaceAfterOneAssignment ==
    \A k \in Declared :
        ops[k] = <<"A", "B">>
            => /\ variables[k].assign_cnt = 0
               /\ DOMAIN variables[k].assignments = {}

\* C11 (as stated): the assignment counter of every variable is >= 0 in
\* every reachable state, whatever the sequence of run and backspace calls.
C11_CounterNeverNegative ==
    \A k \in Declared : variables[k].assign_cnt >= 0

\* is_dynamic_prompt(): not self.instruction.is_constant(); a str has no
\* is_constant
is_dynamic_prompt ==
    IF instruction.type = "Variable"
    THEN [raises |-> "", value |-> TokensIn(instruction.instruction_raw) # << >>]
    ELSE [raises |-> "AttributeError", value |-> FALSE]

\* ------------------------------------------ _messages_compose on its own
\* the turn lists handed to the engine: texts with and without surrounding
\* white space, seed or not, in any order
TurnValues ==
    {Turn(text, seed) :
        text \in {<<Lit("a")>>, <<Lit(" "), Lit("b")>>, <<Lit("\n")>>},
        seed \in BOOLEAN}
RECURSIVE SeqsUpTo(_, _)
SeqsUpTo(S, n) ==
    IF n = 0 THEN {<< >>}
    ELSE SeqsUpTo(S, n - 1)
         \cup {Append(q, x) : q \in SeqsUpTo(S, n - 1), x \in S}
TurnLists == SeqsUpTo(TurnValues, MaxTurnsLen)

InitCompose ==
    /\ Init
    /\ config = "K"

\* self.turns = turns; self._messages_compose() with a constant instruction
CallCompose(turns) ==
    /\ main.pc = "idle"
    /\ LET system == Str(instruction.instruction_raw, instruction.tokens,
                         variables).text
       IN  main' = [main EXCEPT
                !.turns = turns,
                !.system = system,
                !.messages = messages_compose(system, turns)]
    /\ UNCHANGED <<bot, config, instruction, variables, master_lock, locks,
                   tasks, queue, calls, runLog, ops>>

NextCompose == \E turns \in TurnLists : CallCompose(turns)

SpecCompose == InitCompose /\ [][NextCompose]_vars

IsSeed(t) == t.seed
IsNonSeed(t) == ~t.seed
Composed == main.messages # << >>

\* C12: whatever the list of turns, the composed messages are one system
\* message, then one user message holding the seed turns joined in their
\* original order (newline separated, outer white space stripped), then one
\* message per non-seed turn in the original order, the i-th of them
\* (0-based) with role "assistant" for even i and "user" for odd i.
C12_ComposedMessages ==
    Composed =>
        LET seeds == SelectSeq(main.turns, IsSeed)
            others == SelectSeq(main.turns, IsNonSeed)
            m == main.messages
        IN  /\ Len(m) = 2 + Len(others)
            /\ m[1].role = "system"
            /\ m[2].role = "user"
            /\ m[2].content =
                   Strip(Join([i \in 1 .. Len(seeds) |-> seeds[i].text],
                              "\n"))
            /\ \A i \in 0 .. Len(others) - 1 :
                   /\ m[3 + i].role =
                          (IF i % 2 = 0 THEN "assistant" ELSE "user")
                   /\ m[3 + i].content = others[i + 1].text

\* a composed list with one seed turn followed by two non-seed turns
C12_Witness ==
    /\ Composed
    /\ Len(main.turns) = 3
    /\ main.turns[1].seed /\ ~main.turns[2].seed /\ ~main.turns[3].seed
    /\ Len(main.messages) = 4
    /\ main.messages[3].role = "assistant"
    /\ main.messages[4].role = "user"

\* C13 (as stated): in every reachable state is_dynamic_prompt() returns
\* true exactly when the root instruction template given at construction
\* contains a token, so its result never changes across run and backspace.
C13_IsDynamicStable ==
    /\ is_dynamic_prompt.raises = ""
    /\ is_dynamic_prompt.value = (TokensIn(Cfg.instruction) # << >>)

C15_RootTemplateFixed ==
    /\ instruction.type = "Variable"
    /\ instruction.instruction_raw = Cfg.instruction

\* C16 (as stated): as long as backspace was never called, the assignment
\* counter of every variable equals the number of turns recorded in its
\* assignment history.
C16_CounterEqualsHistory ==
    \A k \in Declared :
        NoBackspace(k) =>
            variables[k].assign_cnt = Cardinality(DOMAIN variables[k].assignments)

\* C16 (amended): as long as backspace was never called and no reduction
\* assigned None to the variable, its assignment counter equals the number
\* of turns recorded in its assignment history.
C16_CounterEqualsHistoryNotNone ==
    \A k \in Declared :
        (NoBackspace(k) /\ ~NoneAssigned(k)) =>
            variables[k].assign_cnt = Cardinality(DOMAIN variables[k].assignments)

\* two runs at different turns each assigned the variable
C16_Witness ==
    /\ config = "W"
    /\ ops["w"] = <<"A", "A">>
    /\ variables["w"].assign_cnt = 2
    /\ Cardinality(DOMAIN variables["w"].assignments) = 2
    /\ Len(runLog) = 2

\* C17: an assign call with a non-empty format stores the value under that
\* format and changes nothing else of the variable: the assignment counter,
\* the assignment history, the base value and the values of the other
\* formats stay as they were.
C17_FormatAssignFrame ==
    [][\A k \in Declared :
          ops'[k] = Append(ops[k], "F")
              => \E f \in Formats \ {BaseFormat}, val \in Values :
                    variables'[k] =
                        [variables[k] EXCEPT !.value = DictSet(@, f, val)]]_vars

\* a base assignment followed by an assignment under the list format
C17_Witness ==
    /\ config = "W"
    /\ ops["w"] = <<"A", "F">>
    /\ variables["w"].assign_cnt = 1
    /\ Cardinality(DOMAIN variables["w"].assignments) = 1
    /\ DOMAIN variables["w"].value = {BaseFormat, ListFormat}
    /\ variables["w"].value[ListFormat] # variables["w"].value[BaseFormat]

\* the task is inside the "with variable_lock:" block of variable k
InLockBlock(id, k) ==
    /\ Root(id) = k
    /\ tasks[id].pc \in {"decode", "call", "reduce", "post"}
Holders(k) == {id \in DOMAIN tasks : InLockBlock(id, k)}

\* C18: at most one task is inside the lock block of a variable at a time,
\* and during a resolution pass every step that changes a variable (its
\* values, response, history or counter) is a step of the one task that is
\* inside the lock block of that variable and holds its lock.
C18_WritesUnderLock ==
    /\ [](\A k \in Declared : Cardinality(Holders(k)) <= 1)
    /\ [][\A k \in Declared :
            (InPass /\ variables'[k] # variables[k])
                => \E id \in Holders(k) :
                      /\ locks[k] = id
                      /\ (id \notin DOMAIN tasks' \/ tasks'[id] # tasks[id])]_vars

\* a task wrote the response of a variable under its lock while another
\* task for the same variable waits for the lock
C18_Witness ==
    /\ InPass
    /\ \E k \in Declared :
         \E a \in Holders(k), b \in DOMAIN tasks :
            /\ tasks[a].pc = "reduce"
            /\ ~IsNone(variables[k].response)
            /\ Root(b) = k
            /\ tasks[b].pc = "wait_lock"

\* C19 (as stated): while the tokens of a variable's own template are being
\* resolved, that variable's lock is not held by the task resolving them.
C19_ParentLockReleased ==
    \A id \in DOMAIN tasks :
        (tasks[id].pc = "decode" /\ Children(id) # {})
            => locks[Root(id)] # id

\* C19 (amended): while the tokens of a variable's own template are being
\* resolved, the task that resolves them holds that variable's lock.
C19_ParentLockHeld ==
    \A id \in DOMAIN tasks :
        tasks[id].pc = "decode" => locks[Root(id)] = id

\* a parent waits for its child, which is at its endpoint call
C19_Witness ==
    \E id \in DOMAIN tasks :
        /\ tasks[id].pc = "decode"
        /\ locks[Root(id)] = id
        /\ \E c \in Children(id) : tasks[c].pc = "call"

\* C20: the master lock is held only by a task at the look-up of the lock of
\* its variable, which can always proceed: no task holds it while it waits
\* for or holds a variable lock or is at an endpoint call.
C20_MasterLockOnlyForLookup ==
    /\ master_lock # NoTask
         => /\ master_lock \in DOMAIN tasks
            /\ tasks[master_lock].pc = "master"
            /\ ENABLED LookupLock(master_lock)
    /\ \A id \in DOMAIN tasks :
         tasks[id].pc \in {"wait_lock", "decode", "call", "reduce", "post"}
             => master_lock # id

\* one task is at the look-up of the lock of a variable while another task
\* holds the lock of that variable and is at its endpoint call
C20_Witness ==
    /\ master_lock # NoTask
    /\ tasks[master_lock].pc = "master"
    /\ \E a \in DOMAIN tasks :
         /\ tasks[a].pc = "call"
         /\ Root(a) = Root(master_lock)
         /\ locks[Root(a)] = a

\* the step is the return (or raise) of the threadPool.map call of owner o
MapReturns(o) ==
    /\ Children(o) # {}
    /\ \A c \in Children(o) : c \notin DOMAIN tasks'
Owners == DOMAIN tasks \cup {MainThread}

\* C21 (as stated): the map of a substitution pass returns to its caller
\* only after every task it spawned has completed or failed.
C21_ReturnAfterAllTasksEnded ==
    [][\A o \in Owners :
          MapReturns(o)
              => \A c \in Children(o) : tasks[c].pc \in {"done", "failed"}]_vars

\* C21 (amended): the map of a substitution pass returns to its caller only
\* after every task it spawned has completed or failed, or was never
\* started because an earlier task of the same chunk of the map failed; a
\* failure cancels no task outside its chunk.
C21_ReturnAfterAllChunksEnded ==
    [][\A o \in Owners :
          MapReturns(o)
              => LET cs == ChunkSize(Cardinality(Children(o)))
                     chunk(c) == (c[Len(c)] - 1) \div cs
                 IN  \A c \in Children(o) :
                        \/ tasks[c].pc \in {"done", "failed"}
                        \/ /\ tasks[c].pc = "queued"
                           /\ \E d \in Children(o) :
                                 /\ chunk(d) = chunk(c)
                                 /\ d[Len(d)] < c[Len(c)]
                                 /\ tasks[d].pc = "failed"]_vars

\* the task of <a> failed first, the task of <b> then ran to its end, and
\* the map is about to raise
C21_Witness ==
    /\ config = "AB" /\ InPass /\ Joined(MainThread)
    /\ tasks[<<1>>].pc = "failed" /\ tasks[<<1>>].fin = 1
    /\ tasks[<<2>>].pc = "done" /\ tasks[<<2>>].fin = 2
    /\ calls["b"] = 1

\* configurations in which every variable lies on a reference cycle
Cyclic == config \in {"CYC", "CYC2"}

\* C22: when a variable references itself, directly (CYC) or through
\* another variable (CYC2), its first resolution never completes: no
\* endpoint call is issued for a variable of the cycle, none is ever
\* assigned, and no run returns or raises, whatever the calls made.
C22_CycleNeverCompletes ==
    Cyclic =>
        /\ runLog = << >>
        /\ \A k \in Declared : NeverAssigned(k) /\ calls[k] = 0

\* the pass is stuck: the task of <s> holds the lock of s and waits for
\* the task of the token <s> of its own template, which waits for that
\* lock, and no thread can take a step
C22_Witness ==
    /\ config = "CYC" /\ InPass
    /\ tasks[<<1>>].pc = "decode" /\ locks["s"] = <<1>>
    /\ tasks[<<1, 1>>].pc = "wait_lock" /\ Root(<<1, 1>>) = "s"
    /\ ~ENABLED Next

\* C23 (as stated): a backspace call on a variable removes the history
\* entry whose key is the assignment counter, when the history has that
\* key, decrements the counter by one and changes nothing else.
C23_BackspaceRemovesCounterEntry ==
    [][\A k \in Declared :
          ops'[k] = Append(ops[k], "B")
              => LET v == variables[k]
                 IN  variables'[k] =
                        [v EXCEPT
                            !.assignments =
                                IF v.assign_cnt \in DOMAIN v.assignments
                                THEN DictDel(v.assignments, v.assign_cnt)
                                ELSE v.assignments,
                            !.assign_cnt = v.assign_cnt - 1]]_vars

\* C24 (as stated): a backspace undoes the most recent assignment; after
\* one assignment and one backspace the variable is unassigned again: it
\* holds no value and is assignable at every turn index.
C24_BackspaceRestoresUnassigned ==
    \A k \in Declared :
        ops[k] = <<"A", "B">>
            => /\ IsNone(get_value(variables[k]))
               /\ \A t \in Turns :
                     is_assignable(variables[k], Frequency(k), t)

\* the task passes from the acquisition of its variable lock to the gate
GateStep(id) ==
    /\ tasks[id].pc = "wait_lock"
    /\ id \in DOMAIN tasks'
    /\ tasks'[id].pc # "wait_lock"

\* C25: when is_assignable is false for the variable of a task at the
\* current turn, the task ends at once: it spawns no task, issues no endpoint
\* call and leaves every variable (values, history, counter) and every lock
\* as they were; and a run whose root instruction is the one token <k>, and
\* which made no call for k, composes the value k already held.
C25_NotAssignableReusesValue ==
    /\ [][\A id \in DOMAIN tasks :
            (GateStep(id)
             /\ ~is_assignable(variables[Root(id)], Frequency(Root(id)),
                               main.turn_idx))
                => /\ tasks'[id].pc = "done"
                   /\ DOMAIN tasks' = DOMAIN tasks
                   /\ variables' = variables
                   /\ calls' = calls
                   /\ locks' = locks]_vars
    /\ [][\A k \in Declared :
            (/\ instruction.type = "Variable"
             /\ instruction.instruction_raw = <<Tok(<<k>>)>>
             /\ calls[k] = 0
             /\ main.pc = "decode" /\ main'.pc = "generate")
                => main'.system = get_value(variables[k]).s]_vars

\* the second run made no call for d and returned with the value the
\* first run had assigned
C25_Witness ==
    /\ config = "D" /\ NoBackspace("d") /\ Len(runLog) = 2
    /\ runLog[1].calls["d"] = 1 /\ runLog[1].outcome = "ok"
    /\ runLog[2].calls["d"] = 0 /\ runLog[2].outcome = "ok"
    /\ runLog[2].system = <<Lit("D")>>
    /\ variables["d"].assign_cnt = 1

\* the task returns from reduce and assigns the reduction to its variable
AssignStep(id) ==
    /\ tasks[id].pc = "reduce"
    /\ id \in DOMAIN tasks'
    /\ tasks'[id].pc = "done"
\* the assignment of val by task id is cached, counted, recorded for the
\* turn, and closes the gate of the variable for the turn
Accepted(id, val) ==
    LET k == Root(id)
    IN  /\ get_value(variables'[k]) = val
        /\ variables'[k].assign_cnt = variables[k].assign_cnt + 1
        /\ main.turn_idx \in DOMAIN variables'[k].assignments
        /\ variables'[k].assignments[main.turn_idx] = val
        /\ ~is_assignable(variables'[k], Frequency(k), main.turn_idx)
EmptyStr == StrV(<< >>)

\* C26 (as stated): every falsy reduction (None, an empty string) is
\* accepted as an assignment: cached, counted, recorded for the turn, and
\* the variable is then not assignable at that turn.
C26_FalsyAccepted ==
    [][\A id \in DOMAIN tasks :
          (AssignStep(id) /\ ~Truthy(tasks[id].red))
              => Accepted(id, tasks[id].red)]_vars

\* C26 (amended): an empty string reduction is accepted as an assignment:
\* cached, counted, recorded for the turn, the variable is then not
\* assignable at that turn, and the run of a root instruction that is the
\* one token of that variable goes on to the final call with an empty
\* system text.
C26_EmptyStringAccepted ==
    /\ [][\A id \in DOMAIN tasks :
            (AssignStep(id) /\ tasks[id].red = EmptyStr)
                => Accepted(id, EmptyStr)]_vars
    /\ [][\A k \in Declared :
            (/\ instruction.type = "Variable"
             /\ instruction.instruction_raw = <<Tok(<<k>>)>>
             /\ get_value(variables[k]) = EmptyStr
             /\ main.pc = "decode" /\ main'.pc # "decode"
             /\ ~MapRaises(MainThread))
                => /\ main'.pc = "generate"
                   /\ main'.system = << >>]_vars

\* a run assigned the empty string to d once and went on to the final call
C26_Witness ==
    /\ config = "D" /\ main.pc = "generate"
    /\ ops["d"] = <<"A">> /\ calls["d"] = 1
    /\ variables["d"].value[BaseFormat] = EmptyStr
    /\ variables["d"].assign_cnt = 1
    /\ main.system = << >>

\* the transforms funcs[1], ..., funcs[n] applied one after the other to val
RECURSIVE Chain(_, _, _)
Chain(funcs, n, val) ==
    IF n = 0 THEN val ELSE ApplyFunc(funcs[n], Chain(funcs, n - 1, val))
\* the match list extracted from the response of variable k
Matches(k) ==
    findall(Lower(Cfg.variables[k].post_regex),
            Lower(variables[k].response.s))
\* the value the post-processing of variable k starts from
StartValue(k) ==
    IF Cfg.variables[k].post_regex # << >> THEN ListV(Matches(k))
    ELSE variables[k].response

\* C27: the value a task assigns is the result of the post_func transforms
\* applied in declared order, each to the output of the one before,
\* starting from the match list when a post_regex is configured and from
\* the raw response otherwise; and the "list" format then holds the string
\* form of the match list as extracted.
C27_TransformsInDeclaredOrder ==
    [][\A id \in DOMAIN tasks :
          AssignStep(id)
              => LET k == Root(id)
                     funcs == Cfg.variables[k].post_func
                 IN  /\ get_value(variables'[k]) =
                            Chain(funcs, Len(funcs), StartValue(k))
                     /\ Cfg.variables[k].post_regex # << >>
                            => get_assignment(variables'[k], ListFormat) =
                                   StrV(ListStr(Matches(k)))]_vars

\* f: "Ab c ab" gives the matches ab, ab, the first one, wrapped; g: "X"
\* wrapped, then its first chunk
C27_Witness ==
    /\ config = "PF" /\ main.pc = "generate"
    /\ get_value(variables["f"]) = StrV(<<Lit("("), Lit("ab"), Lit(")")>>)
    /\ get_assignment(variables["f"], ListFormat) =
           StrV(ListStr(<< <<Lit("ab")>>, <<Lit("ab")>> >>))
    /\ get_value(variables["g"]) = StrV(<<Lit("(")>>)

\* C28 (as stated): with a pipeline of n >= 2 transforms the value assigned
\* for the base format is the output of transform n - 1.
C28_PenultimateAssigned ==
    [][\A id \in DOMAIN tasks :
          LET k == Root(id)
              funcs == Cfg.variables[k].post_func
          IN  (AssignStep(id) /\ Len(funcs) >= 2)
                  => tasks[id].red =
                         Chain(funcs, Len(funcs) - 1, StartValue(k))]_vars

\* C28 (amended): with a pipeline of n >= 2 transforms the value assigned
\* for the base format is the output of the last transform, transform n.
C28_LastAssigned ==
    [][\A id \in DOMAIN tasks :
          LET k == Root(id)
              funcs == Cfg.variables[k].post_func
          IN  (AssignStep(id) /\ Len(funcs) >= 2)
                  => /\ tasks[id].red =
                            Chain(funcs, Len(funcs), StartValue(k))
                     /\ get_value(variables'[k]) = tasks[id].red
                     /\ variables'[k].assignments[main.turn_idx] =
                            tasks[id].red]_vars

\* f was assigned "(ab)", the output of its second transform, and not
\* "ab", the output of its first
C28_Witness ==
    /\ config = "PF" /\ ops["f"] = <<"A">>
    /\ Len(Cfg.variables["f"].post_func) = 2
    /\ get_value(variables["f"]) = StrV(<<Lit("("), Lit("ab"), Lit(")")>>)
    /\ get_value(variables["f"]) # StrV(<<Lit("ab")>>)

\* task id issues the endpoint call of its variable
CallStep(id) ==
    /\ tasks[id].pc = "decode"
    /\ id \in DOMAIN tasks'
    /\ tasks'[id].pc = "call"
\* the text of every turn of the conversation
AllTurnTexts == [i \in 1 .. Len(main.turns) |-> main.turns[i].text]

\* C29: when the task of a variable P whose template is "text <c>" issues
\* the endpoint call of P, the task of the token <c> has finished, the
\* variable c holds a str value, and the message context sent for P is the
\* turns followed by the template with <c> replaced by that value.
C29_ChildBeforeParentCall ==
    [][\A id \in DOMAIN tasks :
          \A c \in Declared :
             LET raw == Cfg.variables[Root(id)].instruction
             IN  (/\ CallStep(id)
                  /\ Len(raw) = 2 /\ ~IsTok(raw[1])
                  /\ raw[2] = Tok(<<c>>))
                    => /\ Children(id) = {id \o <<1>>}
                       /\ tasks[id \o <<1>>].pc = "done"
                       /\ tasks[id \o <<1>>].token = <<c>>
                       /\ get_value(variables[c]).t = "str"
                       /\ tasks'[id].ctx =
                              Strip(Join(AllTurnTexts \o
                                  << <<raw[1]>> \o get_value(variables[c]).s >>,
                                  "\n"))]_vars

\* p is at its endpoint call with the value "C" of c in its context, after
\* the one call for c
C29_Witness ==
    /\ config = "DIA" /\ InPass /\ main.turn_idx = 0
    /\ \E id \in DOMAIN tasks :
         /\ Root(id) = "p" /\ tasks[id].pc = "call"
         /\ tasks[id].ctx = <<Lit("seed post"), Lit("\n"), Lit("on "), Lit("C")>>
    /\ calls["c"] = 1
    /\ get_value(variables["c"]) = StrV(<<Lit("C")>>)

NeverBackspaced == \A k \in Declared : NoBackspace(k)
\* run i was aborted by an endpoint failure and run i + 1 is for the same
\* turn index
AbortedThenRepeated(i) ==
    /\ runLog[i].outcome = "error" /\ runLog[i].err = "EndpointError"
    /\ runLog[i + 1].turn_idx = runLog[i].turn_idx

RunEnds == Len(runLog') = Len(runLog) + 1

\* C31: the final generation call of a run is issued from the end of the
\* resolution only, when every task of the root instruction is done; it is
\* followed by the end of the run and by nothing else, so a run makes it
\* once; a run that returns has made it, and a run whose resolution fails
\* ends with an error without making it.
C31_OneGenerationAfterJoin ==
    [][/\ (main.pc # "generate" /\ main'.pc = "generate")
            => /\ main.pc = "decode"
               /\ \A c \in Children(MainThread) : tasks[c].pc = "done"
       /\ (main.pc = "generate" /\ main' # main)
            => (main'.pc = "idle" /\ RunEnds)
       /\ (RunEnds /\ runLog'[Len(runLog')].outcome = "ok")
            => main.pc = "generate"
       /\ (main.pc = "decode" /\ main'.pc = "idle")
            => (RunEnds /\ runLog'[Len(runLog')].outcome = "error")]_vars

\* a run whose resolution failed, then a run that made the final call and
\* returned
C31_Witness ==
    /\ config = "AB" /\ Len(runLog) = 2
    /\ runLog[1].outcome = "error" /\ runLog[1].err = "EndpointError"
    /\ runLog[2].outcome = "ok"
    /\ runLog[2].system = <<Lit("X"), Lit(" and "), Lit("Y")>>

\* endpoint calls issued for k in the runs that ended and the current one
RECURSIVE LoggedCalls(_, _)
LoggedCalls(k, n) ==
    IF n = 0 THEN 0 ELSE runLog[n].calls[k] + LoggedCalls(k, n - 1)
TotalCalls(k) ==
    LoggedCalls(k, Len(runLog)) + (IF main.pc = "idle" THEN 0 ELSE calls[k])
Undeclared(k) == Frequency(k) = NoFrequency

\* C32 (as stated): the endpoint of a variable with no declared frequency
\* is called at most once in a whole conversation.
C32_AtMostOneCallEver ==
    \A k \in Declared : Undeclared(k) => TotalCalls(k) <= 1

\* C32 (amended): once a variable with no declared frequency holds a base
\* value that is not None, is_assignable is false at every turn index, no
\* further endpoint call is issued for it, and it is never assigned again;
\* so it is assigned a value that is not None at most once.
C32_NoCallOnceValued ==
    /\ [](\A k \in Declared :
            (Undeclared(k) /\ ~IsNone(get_value(variables[k])))
                => \A t \in QueryTurns :
                      ~is_assignable(variables[k], Frequency(k), t))
    /\ [][\A k \in Declared :
            (Undeclared(k) /\ ~IsNone(get_value(variables[k])))
                => /\ calls'[k] <= calls[k]
                   /\ variables'[k].value = variables[k].value]_vars
    /\ [](\A k \in Declared :
            Undeclared(k)
                => Len(SelectSeq(ops[k], LAMBDA o : o = "A")) <= 1)

\* a was assigned by the first run, and a second run at another turn index
\* returned without a call for a
C32_Witness ==
    /\ config = "AB" /\ Len(runLog) = 2 /\ NeverBackspaced
    /\ runLog[1].outcome = "ok" /\ runLog[1].calls["a"] = 1
    /\ runLog[2].outcome = "ok" /\ runLog[2].calls["a"] = 0
    /\ runLog[2].turn_idx # runLog[1].turn_idx
    /\ ops["a"] = <<"A">>

\* variables named by the tokens of the instruction and of the
\* post-processing templates of P
TokenRoots(text) ==
    {token_root(TokensIn(text)[i]) : i \in DOMAIN TokensIn(text)}
RECURSIVE StageRoots(_, _)
StageRoots(st, n) ==
    IF n = 0 THEN {}
    ELSE TokenRoots(st[n].template) \cup StageRoots(st, n - 1)
RefersTo(P) ==
    TokenRoots(Cfg.variables[P].instruction)
        \cup StageRoots(Stages(Cfg.variables[P]),
                        Len(Stages(Cfg.variables[P])))
RootRefs == TokenRoots(instruction.instruction_raw)
OnlyThrough(k, P) ==
    /\ k # P /\ k \in RefersTo(P) /\ k \notin RootRefs
    /\ \A o \in Declared \ {P} : k \notin RefersTo(o)

\* C33: while a run is under way, a variable k referenced only through P
\* has received no endpoint call in this run as long as P has failed its
\* gate at the turn of the run (no call was made for P and is_assignable
\* is false for it), and no task exists for k.
C33_LazyNestedResolution ==
    \A P \in Declared, k \in Declared :
          (/\ main.pc # "idle" /\ instruction.type = "Variable"
           /\ OnlyThrough(k, P)
           /\ calls[P] = 0
           /\ ~is_assignable(variables[P], Frequency(P), main.turn_idx))
              => /\ calls[k] = 0
                 /\ \A id \in DOMAIN tasks : Root(id) # k

\* l fails its gate in a run at a turn where m has no assignment, so the
\* gate of m would pass; the task of l is done without a task or a call
\* for m
C33_Witness ==
    /\ config = "LZ" /\ main.pc = "decode"
    /\ Len(runLog) = 1 /\ runLog[1].outcome = "ok"
    /\ main.turn_idx # runLog[1].turn_idx
    /\ ~is_assignable(variables["l"], Frequency("l"), main.turn_idx)
    /\ is_assignable(variables["m"], Frequency("m"), main.turn_idx)
    /\ calls["m"] = 0 /\ calls["l"] = 0
    /\ \E id \in DOMAIN tasks : Root(id) = "l" /\ tasks[id].pc = "done"

\* the post-processing templates of P name P itself
SelfPost(P) ==
    P \in StageRoots(Stages(Cfg.variables[P]), Len(Stages(Cfg.variables[P])))
PostChild(id) == Len(id) > 1 /\ tasks[Owner(id)].pc = "post"

\* C34: while the tokens of a post_regex or post_func template of a
\* variable are resolved, the task that reduces the variable holds the
\* variable's lock; so a task for the same variable spawned from such a
\* template never gets past the lock, and a variable whose post-processing
\* templates name the variable itself is never assigned a reduction, no
\* task for it ends, and no run over it ends.
C34_PostTemplatesUnderLock ==
    /\ \A id \in DOMAIN tasks :
          tasks[id].pc = "post" => locks[Root(id)] = id
    /\ \A id \in DOMAIN tasks :
          (PostChild(id) /\ Root(id) \in Declared
           /\ Root(id) = Root(Owner(id)))
              => tasks[id].pc \in {"queued", "running", "master",
                                    "wait_lock"}
    /\ \A P \in Declared :
          SelfPost(P)
              => /\ \A i \in DOMAIN ops[P] : ops[P][i] = "B"
                 /\ IsNone(get_value(variables[P]))
                 /\ \A id \in DOMAIN tasks : Root(id) = P => ~Ended(id)
                 /\ (P \in RootRefs => runLog = << >>)

\* the token of the post_regex template of x was resolved while the task of
\* x held the lock of x; now the task for <x-list> of the post_func
\* template waits for that lock
C34_Witness ==
    /\ config = "SELF"
    /\ \E id \in DOMAIN tasks :
          /\ Root(id) = "x" /\ tasks[id].pc = "post" /\ tasks[id].stage = 2
          /\ locks["x"] = id
          /\ ~IsNone(get_value(variables["y"]))
          /\ \E c \in Children(id) :
                Root(c) = "x" /\ tasks[c].pc = "wait_lock"

AllLocksFree ==
    master_lock = NoTask /\ \A k \in DOMAIN locks : locks[k] = NoTask
LastRun == runLog[Len(runLog)]
RaisedIn(err) ==
    \E id \in DOMAIN tasks : tasks[id].pc = "failed" /\ tasks[id].err = err

\* C35: when a run ends with an error (a token that names no variable, an
\* endpoint that raises, a post-processing transform that raises), the
\* registry-wide lock and every variable lock are free, with every task of
\* the run finished; they stay free until the next run, so that a task of
\* the next run finds the lock of its variable free as soon as it asks.
C35_NoLockHeldAfterAbort ==
    /\ []((main.pc = "idle" /\ runLog # << >> /\ LastRun.outcome = "error")
            => AllLocksFree)
    /\ [][(main.pc = "decode" /\ main'.pc = "idle")
            => /\ AllLocksFree'
               /\ \A id \in DOMAIN tasks : Finished(id)]_vars
    /\ [][(main.pc = "idle" /\ main'.pc # "idle") => AllLocksFree']_vars

\* the first run ended with the TypeError of the transform of m; in the
\* next run the tasks of l and of m hold the two variable locks again
C35_Witness ==
    /\ config = "LZ" /\ Len(runLog) = 1
    /\ LastRun.outcome = "error" /\ LastRun.err = "TypeError"
    /\ LastRun.calls["m"] = 1
    /\ main.pc = "decode"
    /\ \E id \in DOMAIN tasks :
          /\ Len(id) > 1 /\ locks["m"] = id /\ locks["l"] = Owner(id)
          /\ tasks[id].pc = "call"

\* ------------------------------------------------- BasicBot.moderate
\* The moderation bot and its two stores: moderate is called with the
\* reddit objects, texts, classifier verdicts and reddit answers of small
\* sets, in any order.
MaxModerate == 3

\* what moderate_post (a submission, type "post") and
\* moderate_comment_thread (a comment) hand to moderate
Objects ==
    {[type |-> "post", id |-> "s1", submission |-> "s1", author |-> "u1"],
     [type |-> "comment", id |-> "c1", submission |-> "s1", author |-> "u2"],
     [type |-> "post", id |-> "s2", submission |-> "s2", author |-> "u2"]}
Dialogues == {<<"you", "fool">>, <<"Please", "Opt Out">>, <<"OPTOUT", "fool">>}

\* str.lower on the chunks of the dialogues
LowerChunk(w) ==
    CASE w = "Opt Out" -> "opt out"
      [] w = "OPTOUT" -> "optout"
      [] w = "Please" -> "please"
      [] OTHER -> w
\* the text holds "opt out" or "optout", whatever the case (the re.sub
\* result is dropped)
check_for_opt_out(comment_str) ==
    \E i \in DOMAIN comment_str :
        LowerChunk(comment_str[i]) \in {"opt out", "optout"}
get_username(redditor_obj) == redditor_obj.author
\* the submission a comment hangs under
Submission(obj) ==
    CHOOSE o \in Objects : o.type = "post" /\ o.id = obj.submission
\* the id of a submission
get_post_id(submission) == submission.id
determine_moderation_strategy(comment_str) == "respond"

search_optout_db(username) == username \in DOMAIN optout_db
add_optout_user(username, dialogue_str) ==
    DictSet(optout_db, username, [dialogue |-> dialogue_str])
\* (mutation of search_moderated: no hash is ever found)
search_moderated_never(hash_value) == FALSE
search_moderated(hash_value) == hash_value \in DOMAIN moderated_db
add_to_moderated(hash_value, author, body) ==
    DictSet(moderated_db, hash_value,
            [hash |-> hash_value, author |-> author, content |-> body])

\* the branch moderate takes
Branch(already_moderated, opt_out, no_mod_user, needs_mod, strategy) ==
    IF ~already_moderated /\ ~opt_out /\ ~no_mod_user
    THEN IF needs_mod /\ strategy = "respond"
         THEN "respond" ELSE "no_response"
    ELSE IF no_mod_user THEN "opted_out_user"
    ELSE IF opt_out THEN "opt_out"
    ELSE "already_moderated"

\* moderate(dialogue_str, obj_to_reply, type); needs_mod is the verdict of
\* the classifier, forbidden tells whether reddit refuses a reply
moderate(dialogue_str, obj_to_reply, needs_mod, forbidden) ==
    /\ Len(botLog) < MaxModerate
    /\ LET author_username == get_username(obj_to_reply)
           opt_out == IF ~passive THEN check_for_opt_out(dialogue_str)
                      ELSE FALSE
           no_mod_user == IF ~passive THEN search_optout_db(author_username)
                          ELSE FALSE
           post_id == IF obj_to_reply.type = "post"
                      THEN get_post_id(obj_to_reply)
                      ELSE get_post_id(Submission(obj_to_reply))
           already_moderated == search_moderated(post_id)
           branch == Branch(already_moderated, opt_out, no_mod_user,
                            needs_mod,
                            determine_moderation_strategy(dialogue_str))
           final_response == IF branch = "respond" THEN "final" ELSE ""
           sends == ~test /\ ~passive /\ final_response # ""
       IN  /\ optout_db' = IF branch = "opt_out"
                           THEN add_optout_user(author_username, dialogue_str)
                           ELSE optout_db
           /\ moderated_db' = IF sends /\ ~forbidden
                              THEN add_to_moderated(post_id, author_username,
                                                    dialogue_str)
                              ELSE moderated_db
           /\ botLog' = Append(botLog,
                  [obj |-> obj_to_reply.id, post_id |-> post_id,
                   author |-> author_username, needs_mod |-> needs_mod,
                   branch |-> branch,
                   reply |-> IF branch = "opt_out" /\ ~forbidden
                             THEN "opt_out"
                             ELSE IF sends /\ ~forbidden THEN "moderation"
                             ELSE "none",
                   raised |-> branch = "opt_out" /\ forbidden])
    /\ UNCHANGED <<test, passive, engine>>

InitBot ==
    /\ EngineInit /\ config = "K"
    /\ test \in BOOLEAN /\ passive \in BOOLEAN
    /\ optout_db = << >> /\ moderated_db = << >> /\ botLog = << >>
NextBot ==
    \E dialogue_str \in Dialogues, obj_to_reply \in Objects,
       needs_mod \in BOOLEAN, forbidden \in BOOLEAN :
        moderate(dialogue_str, obj_to_reply, needs_mod, forbidden)
SpecBot == InitBot /\ [][NextBot]_vars

\* C36: a bot constructed with test=True posts no reply, whatever branch
\* moderate takes.
C36_TestPostsNothing ==
    test => \A i \in DOMAIN botLog : botLog[i].reply = "none"

\* C37: once a moderation reply was posted for a post id and the id is in
\* the moderated store, no later call of moderate that maps to the same
\* post id posts a moderation reply; and the store never loses an id.
C37_OneModerationPerPost ==
    /\ [](\A i \in DOMAIN botLog, j \in DOMAIN botLog :
            (/\ i < j
             /\ botLog[i].reply = "moderation"
             /\ botLog[i].post_id \in DOMAIN moderated_db
             /\ botLog[j].post_id = botLog[i].post_id)
                => botLog[j].reply # "moderation")
    /\ [](\A i \in DOMAIN botLog :
            botLog[i].reply = "moderation"
                => botLog[i].post_id \in DOMAIN moderated_db)
    /\ [][DOMAIN moderated_db \subseteq DOMAIN moderated_db']_vars

\* the submission s1 was moderated; a later toxic comment under s1 by a
\* user who did not opt out got no reply
C37_Witness ==
    /\ ~test /\ ~passive /\ Len(botLog) = 2
    /\ botLog[1].obj = "s1" /\ botLog[1].reply = "moderation"
    /\ botLog[2].obj = "c1" /\ botLog[2].needs_mod
    /\ botLog[2].branch = "already_moderated"
    /\ botLog[2].reply = "none"
    /\ "s1" \in DOMAIN moderated_db
====
